---- MODULE Spec2Model ----
(***************************************************************************)
(* Model of zipline/pipeline/loaders/quarter_estimates.py: the quarter     *)
(* estimates loaders (Next / Previous) and load_adjusted_array.            *)
(*                                                                         *)
(* Rows of the simulation grid are numbered from 0 as in the source; row r *)
(* carries the date dates[r + 1].  A metric cell of the estimates table is *)
(* identified by (column name, input row), so two revisions never carry    *)
(* the same value.  Every knowledge timestamp lies on the grid, and no     *)
(* input row has a null event date, fiscal year or fiscal quarter (the     *)
(* constructor drops such rows).  The mask is handed through unchanged and *)
(* is left out.                                                            *)
(***************************************************************************)
EXTENDS Integers, Sequences, FiniteSets, TLC

NumDates == 3
MaxEvents == 2
MaxNumQuarters == 2
MaxYear == 5

VARIABLES strategy, estimates, pc, columns, groups, group_cols,
          last_per_qtr, shifted_qtr_data, sid_idx, adjustments, out

vars == <<strategy, estimates, pc, columns, groups, group_cols,
          last_per_qtr, shifted_qtr_data, sid_idx, adjustments, out>>

-----------------------------------------------------------------------------
(* The arguments of one call: the date grid and the asset universe.        *)

dates == [i \in 1..NumDates |-> i]
L == Len(dates)
Rows == 0..(L - 1)
DateAt(r) == dates[r + 1]
assets == <<10, 20>>
Sids == {assets[i] : i \in 1..Len(assets)}

EventDates == 0..(NumDates + 1)
Timestamps == 1..NumDates
FiscalPeriods == {<<1, 4>>, <<2, 1>>}
CodecPeriods == {<<y, q>> : y \in (0 - MaxYear)..MaxYear, q \in 1..4}
NumQuarters == (0 - 1)..MaxNumQuarters
SecondNumQuarters == {0 - 1, 1}
ColumnNames == {"estimate", "release"}

Max(S) == CHOOSE x \in S : \A y \in S : y <= x

-----------------------------------------------------------------------------
(* The quarter codec.                                                      *)

normalize_quarters(years, quarters) == years * 4 + quarters - 1

split_normalized_quartersNoCarry(normalized_quarters) ==
    <<normalized_quarters \div 4, normalized_quarters % 4>>

split_normalized_quarters(normalized_quarters) ==
    <<normalized_quarters \div 4, (normalized_quarters % 4) + 1>>

-----------------------------------------------------------------------------
(* The estimates table and the loader's constructor.                       *)

RawEvents(periods) ==
    {[sid |-> s, event_date |-> e, ts |-> t,
      fiscal_year |-> p[1], fiscal_quarter |-> p[2]] :
        s \in Sids, e \in EventDates, t \in Timestamps, p \in periods}

\* Input tables, listed by non-decreasing knowledge timestamp: the order of
\* two rows matters only when they share asset, quarter and timestamp.
Tables(periods, n) ==
    {t \in UNION {[1..m -> RawEvents(periods)] : m \in 0..n} :
        \A i \in 1..(Len(t) - 1) : t[i].ts <= t[i + 1].ts}

Construct(events) ==
    [i \in DOMAIN events |->
        [sid |-> events[i].sid,
         event_date |-> events[i].event_date,
         ts |-> events[i].ts,
         fiscal_year |-> events[i].fiscal_year,
         fiscal_quarter |-> events[i].fiscal_quarter,
         normalized_quarters |-> normalize_quarters(events[i].fiscal_year,
                                                    events[i].fiscal_quarter),
         row |-> i]]

QuartersOf(est) == {est[i].normalized_quarters : i \in DOMAIN est}

MakeColumns(nq1, nq2) ==
    <<[name |-> "estimate", dtype |-> "float64", num_quarters |-> nq1],
      [name |-> "release", dtype |-> "datetime64", num_quarters |-> nq2]>>

MissingValue(column) ==
    [kind |-> IF column.dtype = "datetime64" THEN "NaT" ELSE "NaN",
     col |-> "", row |-> 0]

SearchSorted(v, side) ==
    IF side = "left"
    THEN Cardinality({i \in 1..L : dates[i] < v})
    ELSE Cardinality({i \in 1..L : dates[i] <= v})

-----------------------------------------------------------------------------
(* The last known revision per (date, asset, quarter).                     *)

NullCell == [null |-> TRUE, event_date |-> 0, row |-> 0]

LastInDateGroup(est, r, sid, nq) ==
    LET g == {i \in DOMAIN est :
                /\ est[i].sid = sid
                /\ est[i].normalized_quarters = nq
                /\ SearchSorted(est[i].ts, "left") = r}
    IN IF g = {} THEN NullCell
       ELSE [null |-> FALSE,
             event_date |-> est[Max(g)].event_date,
             row |-> est[Max(g)].row]

RECURSIVE FfillAcrossCols(_, _, _, _)
FfillAcrossCols(est, r, sid, nq) ==
    LET c == LastInDateGroup(est, r, sid, nq)
    IN IF ~c.null THEN c
       ELSE IF r = 0 THEN NullCell
       ELSE FfillAcrossCols(est, r - 1, sid, nq)

LastPerQtrCellFinal(est, r, sid, nq) == FfillAcrossCols(est, L - 1, sid, nq)

LastPerQtrCell(est, r, sid, nq) == FfillAcrossCols(est, r, sid, nq)

LastPerQtrTable(est) ==
    [c \in Rows \X Sids \X QuartersOf(est) |->
        LastPerQtrCell(est, c[1], c[2], c[3])]

MetricValue(cell, column) ==
    IF cell.null THEN MissingValue(column)
    ELSE [kind |-> "data", col |-> column.name, row |-> cell.row]

-----------------------------------------------------------------------------
(* load_quarters: the zero quarter and the requested quarter per           *)
(* (date, asset).  The rows of the stacked table are the non-null cells,   *)
(* sorted by event date; nth(0) / nth(-1) take the first / last row of     *)
(* each (date, asset) group.  The sort is not stable, so among the rows of *)
(* a group that share the extreme event date any one may come first /      *)
(* last: load_quarters is modelled as the set of tables it can return.     *)

NullQtr == [null |-> TRUE, normalized_quarters |-> 0, event_date |-> 0,
            shifted |-> 0]

QuartersIn(lpq) == {c[3] : c \in DOMAIN lpq}

NextCandidatesStrict(lpq, r, sid) ==
    {nq \in QuartersIn(lpq) :
        /\ ~lpq[<<r, sid, nq>>].null
        /\ lpq[<<r, sid, nq>>].event_date > DateAt(r)}

NextCandidates(lpq, r, sid) ==
    {nq \in QuartersIn(lpq) :
        /\ ~lpq[<<r, sid, nq>>].null
        /\ lpq[<<r, sid, nq>>].event_date >= DateAt(r)}

\* The quarters whose row can be the first of the group after the sort.
NextFirst(lpq, r, sid) ==
    {nq \in NextCandidates(lpq, r, sid) :
        \A o \in NextCandidates(lpq, r, sid) :
            lpq[<<r, sid, nq>>].event_date <= lpq[<<r, sid, o>>].event_date}

PreviousCandidates(lpq, r, sid) ==
    {nq \in QuartersIn(lpq) :
        /\ ~lpq[<<r, sid, nq>>].null
        /\ lpq[<<r, sid, nq>>].event_date <= DateAt(r)}

\* The quarters whose row can be the last of the group after the sort.
PreviousLast(lpq, r, sid) ==
    {nq \in PreviousCandidates(lpq, r, sid) :
        \A o \in PreviousCandidates(lpq, r, sid) :
            lpq[<<r, sid, nq>>].event_date >= lpq[<<r, sid, o>>].event_date}

\* The tables that take, in every (date, asset) group, one of the quarters
\* of extreme[cell], shifted by `shift` quarters.
SelectedTables(lpq, extreme, shift) ==
    LET cells == Rows \X Sids
        tied == {c \in cells : Cardinality(extreme[c]) > 1}
        picks == {p \in [tied -> QuartersIn(lpq)] :
                     \A c \in tied : p[c] \in extreme[c]}
    IN {[c \in cells |->
            IF extreme[c] = {} THEN NullQtr
            ELSE LET z == IF c \in tied THEN p[c]
                          ELSE CHOOSE nq \in extreme[c] : TRUE
                 IN [null |-> FALSE,
                     normalized_quarters |-> z,
                     event_date |-> lpq[<<c[1], c[2], z>>].event_date,
                     shifted |-> z + shift]] : p \in picks}

NextLoadQuarters(num_quarters, lpq) ==
    SelectedTables(lpq,
                   [c \in Rows \X Sids |-> NextFirst(lpq, c[1], c[2])],
                   num_quarters - 1)

PreviousLoadQuarters(num_quarters, lpq) ==
    SelectedTables(lpq,
                   [c \in Rows \X Sids |-> PreviousLast(lpq, c[1], c[2])],
                   0 - (num_quarters - 1))

LoadQuarters(num_quarters, lpq) ==
    IF strategy = "previous"
    THEN PreviousLoadQuarters(num_quarters, lpq)
    ELSE NextLoadQuarters(num_quarters, lpq)

-----------------------------------------------------------------------------
(* get_requested_data_for_col: the base values and the requested quarter   *)
(* of every (date, asset), reindexed to the full grid.                     *)

RequestedCell(r, sid) ==
    LET z == shifted_qtr_data[<<r, sid>>]
    IN IF z.null THEN NullCell
       ELSE IF <<r, sid, z.shifted>> \in DOMAIN last_per_qtr
            THEN last_per_qtr[<<r, sid, z.shifted>>]
            ELSE NullCell

RequestedFiscal(r, sid) ==
    split_normalized_quarters(shifted_qtr_data[<<r, sid>>].shifted)

BaseValues(column) ==
    [c \in Rows \X (0..(Len(assets) - 1)) |->
        MetricValue(RequestedCell(c[1], assets[c[2] + 1]), column)]

-----------------------------------------------------------------------------
(* get_adjustments and the overwrite compilers.                            *)

OverwriteType(column) ==
    IF column.dtype = "datetime64"
    THEN "Datetime641DArrayOverwrite"
    ELSE "Float641DArrayOverwrite"

Min(a, b) == IF a < b THEN a ELSE b

\* Rows of zero_qtr_sid_data: the dates at which the asset has a zero quarter.
ZeroRows(sid) == {r \in Rows : ~shifted_qtr_data[<<r, sid>>].null}

QtrShiftsAdjacent(sid) ==
    {r \in Rows :
        /\ r >= 1
        /\ ~shifted_qtr_data[<<r - 1, sid>>].null
        /\ ~shifted_qtr_data[<<r, sid>>].null
        /\ shifted_qtr_data[<<r - 1, sid>>].normalized_quarters
              # shifted_qtr_data[<<r, sid>>].normalized_quarters}

\* qtr_shifts: the rows whose quarter differs from the row before them in
\* zero_qtr_sid_data (shift(1) of the first row is null, which differs).
QtrShifts(sid) ==
    {r \in ZeroRows(sid) :
        LET before == {p \in ZeroRows(sid) : p < r}
        IN \/ before = {}
           \/ shifted_qtr_data[<<Max(before), sid>>].normalized_quarters
                # shifted_qtr_data[<<r, sid>>].normalized_quarters}

\* The quarters for which the asset has a column in last_per_qtr: those it
\* has an estimate for.
QtrsWithEstimatesForSid(sid) ==
    {nq \in QuartersIn(last_per_qtr) :
        \E r \in Rows : ~last_per_qtr[<<r, sid, nq>>].null}

NextQtrStartIdxRight(r, sid) ==
    SearchSorted(shifted_qtr_data[<<r, sid>>].event_date, "right")

NextQtrStartIdxLeft(r, sid) ==
    SearchSorted(shifted_qtr_data[<<r, sid>>].event_date, "left")

NextQtrStartIdx(r, sid) ==
    SearchSorted(shifted_qtr_data[<<r, sid>>].event_date,
                 IF strategy = "previous" THEN "left" ELSE "right")

OverwriteWithNullThroughIdx(column, next_qtr_start_idx, sidx) ==
    <<[type |-> OverwriteType(column),
       first_row |-> 0,
       last_row |-> next_qtr_start_idx,
       first_col |-> sidx,
       last_col |-> sidx,
       values |-> [i \in 1..Min(next_qtr_start_idx + 1, L) |->
                      MissingValue(column)]]>>

OverwriteWithNull(column, next_qtr_start_idx, sidx) ==
    <<[type |-> OverwriteType(column),
       first_row |-> 0,
       last_row |-> next_qtr_start_idx - 1,
       first_col |-> sidx,
       last_col |-> sidx,
       values |-> [i \in 1..Min(next_qtr_start_idx, L) |->
                      MissingValue(column)]]>>

NextCreateOverwriteForEstimateLatest(column, next_qtr_start_idx, requested_quarter, sid, sidx) ==
    <<[type |-> OverwriteType(column),
       first_row |-> 0,
       last_row |-> next_qtr_start_idx - 1,
       first_col |-> sidx,
       last_col |-> sidx,
       values |-> [i \in 1..Min(next_qtr_start_idx, L) |->
                      MetricValue(
                          last_per_qtr[<<next_qtr_start_idx - 1, sid,
                                         requested_quarter>>],
                          column)]]>>

NextCreateOverwriteForEstimate(column, next_qtr_start_idx, requested_quarter, sid, sidx) ==
    <<[type |-> OverwriteType(column),
       first_row |-> 0,
       last_row |-> next_qtr_start_idx - 1,
       first_col |-> sidx,
       last_col |-> sidx,
       values |-> [i \in 1..Min(next_qtr_start_idx, L) |->
                      MetricValue(
                          last_per_qtr[<<i - 1, sid, requested_quarter>>],
                          column)]]>>

PreviousCreateOverwriteForEstimateBackfill(column, next_qtr_start_idx, requested_quarter, sid, sidx) ==
    <<[type |-> OverwriteType(column),
       first_row |-> 0,
       last_row |-> next_qtr_start_idx - 1,
       first_col |-> sidx,
       last_col |-> sidx,
       values |-> [i \in 1..Min(next_qtr_start_idx, L) |->
                      MetricValue(
                          last_per_qtr[<<i - 1, sid, requested_quarter>>],
                          column)]]>>

PreviousCreateOverwriteForEstimate(column, next_qtr_start_idx, requested_quarter, sid, sidx) ==
    OverwriteWithNull(column, next_qtr_start_idx, sidx)

CreateOverwriteForEstimate(column, next_qtr_start_idx, requested_quarter, sid, sidx) ==
    IF strategy = "previous"
    THEN PreviousCreateOverwriteForEstimate(column, next_qtr_start_idx,
                                            requested_quarter, sid, sidx)
    ELSE NextCreateOverwriteForEstimate(column, next_qtr_start_idx,
                                        requested_quarter, sid, sidx)

\* An entry of the adjustments mapping: a list of overwrites, or the None
\* that create_overwrite_for_quarter returns when it falls off its `if`.
NoneEntry == [none |-> TRUE, overwrites |-> <<>>]
ListEntry(ows) == [none |-> FALSE, overwrites |-> ows]

CreateOverwriteForQuarter(next_qtr_start_idx, column, sid, sidx) ==
    IF 0 < next_qtr_start_idx /\ next_qtr_start_idx < L
    THEN LET z == shifted_qtr_data[<<next_qtr_start_idx, sid>>]
         IN IF ~z.null /\ z.shifted \in QtrsWithEstimatesForSid(sid)
            THEN ListEntry(CreateOverwriteForEstimate(
                     column, next_qtr_start_idx, z.shifted, sid, sidx))
            ELSE ListEntry(OverwriteWithNull(column, next_qtr_start_idx, sidx))
    ELSE NoneEntry

Put(adj, k, entry) ==
    [x \in (DOMAIN adj) \cup {k} |-> IF x = k THEN entry ELSE adj[x]]

\* The inner loop of get_adjustments over list(qtr_shifts.index), in date
\* order, for one asset.
RECURSIVE AdjustSid(_, _, _, _, _)
AdjustSid(adj, r, column, sid, sidx) ==
    IF r >= L THEN adj
    ELSE AdjustSid(
            IF r \in QtrShifts(sid)
            THEN Put(adj, NextQtrStartIdx(r, sid),
                     CreateOverwriteForQuarter(NextQtrStartIdx(r, sid),
                                               column, sid, sidx))
            ELSE adj,
            r + 1, column, sid, sidx)

NoArray == [present |-> FALSE, data |-> <<>>, adjustments |-> <<>>,
            missing_value |-> [kind |-> "", col |-> "", row |-> 0]]

AdjustedArray(data, adj, missing_value) ==
    [present |-> TRUE, data |-> data, adjustments |-> adj,
     missing_value |-> missing_value]

-----------------------------------------------------------------------------
(* load_adjusted_array.                                                    *)

\* toolz.groupby: the distinct num_quarters, in order of first appearance.
RECURSIVE GroupKeys(_, _)
GroupKeys(cols, i) ==
    IF i > Len(cols) THEN <<>>
    ELSE IF \E j \in 1..(i - 1) : cols[j].num_quarters = cols[i].num_quarters
         THEN GroupKeys(cols, i + 1)
         ELSE <<cols[i].num_quarters>> \o GroupKeys(cols, i + 1)

RECURSIVE GroupColumns(_, _, _)
GroupColumns(cols, nq, i) ==
    IF i > Len(cols) THEN <<>>
    ELSE IF cols[i].num_quarters = nq
         THEN <<i>> \o GroupColumns(cols, nq, i + 1)
         ELSE GroupColumns(cols, nq, i + 1)

InvalidNumQtrsNonPositive(cols) ==
    \E i \in 1..Len(cols) : cols[i].num_quarters <= 0

InvalidNumQtrs(cols) ==
    \E i \in 1..Len(cols) : cols[i].num_quarters < 0

Idle ==
    /\ pc = "idle"
    /\ columns = <<>>
    /\ groups = <<>>
    /\ group_cols = <<>>
    /\ last_per_qtr = <<>>
    /\ shifted_qtr_data = <<>>
    /\ sid_idx = 0
    /\ adjustments = <<>>
    /\ out = [n \in ColumnNames |-> NoArray]

Init ==
    /\ strategy \in {"next", "previous"}
    /\ \E events \in Tables(FiscalPeriods, MaxEvents) :
          estimates = Construct(events)
    /\ Idle

InitCodec ==
    /\ strategy \in {"next", "previous"}
    /\ \E events \in Tables(CodecPeriods, 1) : estimates = Construct(events)
    /\ Idle

\* Lines 334-355: group the columns by num_quarters and validate.
LoadAdjustedArray ==
    /\ pc = "idle"
    /\ \E nq1 \in NumQuarters, nq2 \in SecondNumQuarters :
          /\ columns' = MakeColumns(nq1, nq2)
          /\ IF InvalidNumQtrs(columns')
             THEN /\ pc' = "failed"
                  /\ groups' = groups
             ELSE /\ pc' = "groups"
                  /\ groups' = GroupKeys(columns', 1)
    /\ UNCHANGED <<strategy, estimates, group_cols, last_per_qtr,
                   shifted_qtr_data, sid_idx, adjustments, out>>

\* Lines 357-390, and the prologue of get_adjustments for the group's first
\* column (lines 201-212).
LoadGroup ==
    /\ pc = "groups"
    /\ groups # <<>>
    /\ last_per_qtr' = LastPerQtrTable(estimates)
    /\ shifted_qtr_data' \in LoadQuarters(Head(groups), last_per_qtr')
    /\ group_cols' = GroupColumns(columns, Head(groups), 1)
    /\ groups' = Tail(groups)
    /\ adjustments' = <<>>
    /\ sid_idx' = 0
    /\ pc' = "sids"
    /\ UNCHANGED <<strategy, estimates, columns, out>>

\* Lines 213-258: one iteration of `for sid_idx, sid in enumerate(assets)`.
ProcessSid ==
    /\ pc = "sids"
    /\ sid_idx < Len(assets)
    /\ adjustments' = AdjustSid(adjustments, 0, columns[Head(group_cols)],
                                assets[sid_idx + 1], sid_idx)
    /\ sid_idx' = sid_idx + 1
    /\ UNCHANGED <<strategy, estimates, pc, columns, groups, group_cols,
                   last_per_qtr, shifted_qtr_data, out>>

\* Lines 260-265 and 403: the column's AdjustedArray; then the next column
\* of the group, or the next group.
ReturnAdjustedArray ==
    /\ pc = "sids"
    /\ sid_idx = Len(assets)
    /\ LET column == columns[Head(group_cols)]
       IN out' = [out EXCEPT ![column.name] =
                     AdjustedArray(BaseValues(column), adjustments,
                                   MissingValue(column))]
    /\ group_cols' = Tail(group_cols)
    /\ adjustments' = <<>>
    /\ sid_idx' = 0
    /\ pc' = IF group_cols' = <<>> THEN "groups" ELSE "sids"
    /\ UNCHANGED <<strategy, estimates, columns, groups, last_per_qtr,
                   shifted_qtr_data>>

\* Line 404.
ReturnOut ==
    /\ pc = "groups"
    /\ groups = <<>>
    /\ pc' = "done"
    /\ UNCHANGED <<strategy, estimates, columns, groups, group_cols,
                   last_per_qtr, shifted_qtr_data, sid_idx, adjustments, out>>

Next ==
    \/ LoadAdjustedArray
    \/ LoadGroup
    \/ ProcessSid
    \/ ReturnAdjustedArray
    \/ ReturnOut

Spec == Init /\ [][Next]_vars

SpecCodec == InitCodec /\ [][Next]_vars

-----------------------------------------------------------------------------
(* Properties.                                                             *)

CurrentColumn == columns[Head(group_cols)]

\* The patch mapping of the column in progress is complete: the asset loop
\* has ended and the mapping is about to be handed to AdjustedArray.
AtLoopEnd == pc = "sids" /\ sid_idx = Len(assets)

\* The rows of `est` known as of the date of row r.
KnownAsOf(est, r) == SelectSeq(est, LAMBDA e : e.ts <= DateAt(r))

\* The estimates rows of (sid, nq) known as of row r, and the latest of them.
KnownRows(r, sid, nq) ==
    {i \in DOMAIN estimates :
        /\ estimates[i].sid = sid
        /\ estimates[i].normalized_quarters = nq
        /\ estimates[i].ts <= DateAt(r)}

IsLatest(i, r) ==
    /\ estimates[i].ts <= DateAt(r)
    /\ \A j \in KnownRows(r, estimates[i].sid,
                          estimates[i].normalized_quarters) :
          \/ estimates[j].ts < estimates[i].ts
          \/ (estimates[j].ts = estimates[i].ts /\ j <= i)

HasEstimate(sid, nq) ==
    \E i \in DOMAIN estimates :
        estimates[i].sid = sid /\ estimates[i].normalized_quarters = nq

TimelineValue(r, sid, nq, column) ==
    IF KnownRows(r, sid, nq) = {} THEN MissingValue(column)
    ELSE LET i == CHOOSE j \in KnownRows(r, sid, nq) : IsLatest(j, r)
         IN [kind |-> "data", col |-> column.name, row |-> estimates[i].row]

Loaded == pc \in {"sids", "groups", "done"} /\ DOMAIN shifted_qtr_data # {}

\* C1: load_adjusted_array fails exactly when some requested column has
\* num_quarters < 0, and a failed call has computed no timeline, no zero
\* quarter, no patch and no output for any column.
FailsExactlyOnNegativeNumQuarters ==
    /\ pc # "idle" =>
          ((pc = "failed") <=>
              (\E i \in 1..Len(columns) : columns[i].num_quarters < 0))
    /\ pc = "failed" =>
          /\ last_per_qtr = <<>>
          /\ shifted_qtr_data = <<>>
          /\ adjustments = <<>>
          /\ \A n \in ColumnNames : ~out[n].present

FailedWithValidColumn ==
    /\ pc = "failed"
    /\ Len(estimates) > 0
    /\ \E i \in 1..Len(columns) : columns[i].num_quarters >= 0
    /\ \E i \in 1..Len(columns) : columns[i].num_quarters < 0

\* C2: the per-quarter timeline cell at row r is the one computed from the
\* table cut down to the rows with knowledge timestamp <= the date of r, so
\* two tables that agree on those rows give the same value at r.
NoLookAhead ==
    \A c \in DOMAIN last_per_qtr :
        last_per_qtr[c] =
            LastPerQtrCell(KnownAsOf(estimates, c[1]), c[1], c[2], c[3])

KnownValueWithLaterRevision ==
    \E c \in DOMAIN last_per_qtr :
        /\ ~last_per_qtr[c].null
        /\ \E i \in DOMAIN estimates :
              /\ estimates[i].sid = c[2]
              /\ estimates[i].normalized_quarters = c[3]
              /\ estimates[i].ts > DateAt(c[1])

\* C3 as stated: under Next the zero quarter at (d, a) is the quarter of the
\* event of a with the smallest event_date among all events of a with
\* event_date >= d, and the cell is null when there is none.
ZeroQuarterIsNextOfAllEvents ==
    (strategy = "next" /\ Loaded) =>
        \A r \in Rows, sid \in Sids :
            LET z == shifted_qtr_data[<<r, sid>>]
                fut == {i \in DOMAIN estimates :
                          /\ estimates[i].sid = sid
                          /\ estimates[i].event_date >= DateAt(r)}
            IN IF fut = {} THEN z.null
               ELSE /\ ~z.null
                    /\ \E i \in fut :
                          /\ \A j \in fut : estimates[i].event_date
                                              <= estimates[j].event_date
                          /\ z.normalized_quarters
                               = estimates[i].normalized_quarters

\* C3 amended: the events considered at d are, per quarter, the latest
\* revision known as of d.
ZeroQuarterIsNextOfKnownEvents ==
    (strategy = "next" /\ Loaded) =>
        \A r \in Rows, sid \in Sids :
            LET z == shifted_qtr_data[<<r, sid>>]
                fut == {i \in DOMAIN estimates :
                          /\ estimates[i].sid = sid
                          /\ IsLatest(i, r)
                          /\ estimates[i].event_date >= DateAt(r)}
            IN IF fut = {} THEN z.null /\ RequestedCell(r, sid).null
               ELSE /\ ~z.null
                    /\ \E i \in fut :
                          /\ \A j \in fut : estimates[i].event_date
                                              <= estimates[j].event_date
                          /\ z.normalized_quarters
                               = estimates[i].normalized_quarters
                          /\ z.event_date = estimates[i].event_date

ZeroQuarterAmongTwoAndNull ==
    /\ strategy = "next"
    /\ Loaded
    /\ \E r \in Rows, sid \in Sids :
          /\ ~shifted_qtr_data[<<r, sid>>].null
          /\ \E i, j \in DOMAIN estimates :
                /\ estimates[i].sid = sid /\ estimates[j].sid = sid
                /\ IsLatest(i, r) /\ IsLatest(j, r)
                /\ DateAt(r) <= estimates[i].event_date
                /\ estimates[i].event_date < estimates[j].event_date
    /\ \E r \in Rows, sid \in Sids : shifted_qtr_data[<<r, sid>>].null

\* C4: at the end of the asset loop every crossover of every asset whose
\* row index k satisfies 0 < k < L has its patch in the mapping under k.
EveryCrossoverPatchRetained ==
    AtLoopEnd =>
        \A p \in 1..Len(assets) :
            \A r \in QtrShifts(assets[p]) :
                LET k == NextQtrStartIdx(r, assets[p])
                    made == CreateOverwriteForQuarter(k, CurrentColumn,
                                                      assets[p], p - 1)
                IN (0 < k /\ k < L) =>
                      /\ k \in DOMAIN adjustments
                      /\ ~adjustments[k].none
                      /\ \E j \in DOMAIN adjustments[k].overwrites :
                            adjustments[k].overwrites[j]
                                = made.overwrites[1]

\* C5: every key of a patch mapping handed to the array consumer satisfies
\* 0 < key < L and maps to a non-empty list of overwrites.
OnlyRetainedKeys ==
    \A n \in ColumnNames :
        out[n].present =>
            \A k \in DOMAIN out[n].adjustments :
                /\ 0 < k /\ k < L
                /\ ~out[n].adjustments[k].none
                /\ Len(out[n].adjustments[k].overwrites) > 0

\* C6: every overwrite stored under key k covers rows 0..k-1 of the single
\* column c of an asset that has a crossover at k, with exactly k values.
PatchShape ==
    pc = "sids" =>
        \A k \in DOMAIN adjustments :
            \A j \in DOMAIN adjustments[k].overwrites :
                LET ow == adjustments[k].overwrites[j]
                IN /\ ow.first_row = 0
                   /\ ow.last_row = k - 1
                   /\ ow.first_col = ow.last_col
                   /\ Len(ow.values) = k
                   /\ \E p \in 1..Len(assets) :
                         /\ ow.first_col = p - 1
                         /\ \E r \in QtrShifts(assets[p]) :
                               NextQtrStartIdx(r, assets[p]) = k

PatchOfSecondAssetAtRowTwo ==
    /\ pc = "sids"
    /\ 2 \in DOMAIN adjustments
    /\ ~adjustments[2].none
    /\ adjustments[2].overwrites[1].first_col = 1
    /\ \E i \in 1..2 : adjustments[2].overwrites[1].values[i].kind = "data"

\* C7: under Next the patch at row k of asset a carries, for each row
\* i < k, the value of the requested quarter Q of (k, a) as known at row i
\* when a has an estimate for Q, and the missing value otherwise.
NextPatchValues ==
    (strategy = "next" /\ pc = "sids") =>
        \A k \in DOMAIN adjustments :
            \A j \in DOMAIN adjustments[k].overwrites :
                LET ow == adjustments[k].overwrites[j]
                    sid == assets[ow.first_col + 1]
                    z == shifted_qtr_data[<<k, sid>>]
                IN \A i \in 0..(k - 1) :
                      ow.values[i + 1] =
                          IF ~z.null /\ HasEstimate(sid, z.shifted)
                          THEN TimelineValue(i, sid, z.shifted, CurrentColumn)
                          ELSE MissingValue(CurrentColumn)

NextPatchWithUnknownThenKnown ==
    /\ strategy = "next"
    /\ pc = "sids"
    /\ \E k \in DOMAIN adjustments :
          /\ ~adjustments[k].none
          /\ k >= 2
          /\ adjustments[k].overwrites[1].values[1].kind # "data"
          /\ adjustments[k].overwrites[1].values[2].kind = "data"

ZeroQuarterChanges(r, sid) ==
    /\ ~shifted_qtr_data[<<r - 1, sid>>].null
    /\ ~shifted_qtr_data[<<r, sid>>].null
    /\ shifted_qtr_data[<<r - 1, sid>>].normalized_quarters
          # shifted_qtr_data[<<r, sid>>].normalized_quarters

BecomesKnownAt(r, sid) ==
    \E i \in DOMAIN estimates :
        /\ estimates[i].sid = sid
        /\ DateAt(r - 1) < estimates[i].ts
        /\ estimates[i].ts <= DateAt(r)

\* C9 as stated: under Next the zero quarter changes between rows r - 1 and
\* r only when r is the crossover row computed from the event date of the
\* zero quarter of row r - 1.
ZeroQuarterChangesOnlyAtCrossover ==
    (strategy = "next" /\ Loaded) =>
        \A sid \in Sids, r \in 1..(L - 1) :
            ZeroQuarterChanges(r, sid) => NextQtrStartIdx(r - 1, sid) = r

\* The zero quarters of rows r - 1 and r have different event dates: the
\* change is not a choice among quarters released on the same date.
DifferentEventDates(r, sid) ==
    shifted_qtr_data[<<r - 1, sid>>].event_date
        # shifted_qtr_data[<<r, sid>>].event_date

\* C9 amended: the same, for rows at which no revision of the asset becomes
\* known and for changes between quarters with different event dates.
ZeroQuarterChangesOnlyAtCrossoverOrRevision ==
    (strategy = "next" /\ Loaded) =>
        \A sid \in Sids, r \in 1..(L - 1) :
            (/\ ZeroQuarterChanges(r, sid)
             /\ ~BecomesKnownAt(r, sid)
             /\ DifferentEventDates(r, sid)) =>
                NextQtrStartIdx(r - 1, sid) = r

ZeroQuarterChangesAtCrossover ==
    /\ strategy = "next"
    /\ Loaded
    /\ \E sid \in Sids, r \in 1..(L - 1) :
          /\ ZeroQuarterChanges(r, sid)
          /\ ~BecomesKnownAt(r, sid)
          /\ DifferentEventDates(r, sid)

\* C10: splitting the normalized quarter of a (fiscal year, fiscal quarter)
\* gives the pair back: for every row of the estimates table, and for the
\* requested year and quarter of a column with num_quarters = 1.
QuarterCodecRoundTrip ==
    /\ \A i \in DOMAIN estimates :
          /\ estimates[i].normalized_quarters
                = 4 * estimates[i].fiscal_year
                    + estimates[i].fiscal_quarter - 1
          /\ split_normalized_quarters(estimates[i].normalized_quarters)
                = <<estimates[i].fiscal_year, estimates[i].fiscal_quarter>>
    /\ (pc = "sids" /\ CurrentColumn.num_quarters = 1) =>
          \A r \in Rows, sid \in Sids :
              LET z == shifted_qtr_data[<<r, sid>>]
              IN ~z.null =>
                    \E i \in DOMAIN estimates :
                        /\ estimates[i].sid = sid
                        /\ estimates[i].normalized_quarters
                              = z.normalized_quarters
                        /\ RequestedFiscal(r, sid)
                              = <<estimates[i].fiscal_year,
                                  estimates[i].fiscal_quarter>>

RequestedFourthQuarterOfNegativeYear ==
    /\ pc = "sids"
    /\ CurrentColumn.num_quarters = 1
    /\ \E r \in Rows, sid \in Sids :
          /\ ~shifted_qtr_data[<<r, sid>>].null
          /\ RequestedFiscal(r, sid)[2] = 4
          /\ RequestedFiscal(r, sid)[1] < 0

\* The assets whose iteration of the asset loop has run.
ProcessedSids == {assets[p] : p \in 1..sid_idx}

\* The number of simulation dates <= E under Next and < E under Previous.
DatesUpTo(E) ==
    IF strategy = "previous"
    THEN Cardinality({r \in Rows : DateAt(r) < E})
    ELSE Cardinality({r \in Rows : DateAt(r) <= E})

\* C11: every crossover of a processed asset is stored under the number of
\* simulation dates <= its event date E (Next) or < E (Previous); when E is
\* the date of row r that key is r + 1 under Next and r under Previous.
CrossoverIndexCountsDates ==
    pc = "sids" =>
        \A sid \in ProcessedSids :
            \A s \in QtrShifts(sid) :
                LET E == shifted_qtr_data[<<s, sid>>].event_date
                IN /\ DatesUpTo(E) \in DOMAIN adjustments
                   /\ \A r \in Rows :
                         E = DateAt(r) =>
                            (IF strategy = "previous" THEN r ELSE r + 1)
                                \in DOMAIN adjustments

CrossoverOnSimulationDate ==
    /\ pc = "sids"
    /\ strategy = "previous"
    /\ \E sid \in ProcessedSids :
          \E s \in QtrShifts(sid) :
              /\ shifted_qtr_data[<<s, sid>>].event_date = DateAt(1)
              /\ DOMAIN adjustments = {1}
              /\ ~adjustments[1].none

\* The rows the asset loop treats as crossovers of the asset: the rows with
\* a zero quarter that are the first such row, or whose zero quarter differs
\* from that of the nearest earlier row with a zero quarter.
FirstOrChangedRows(sid) ==
    {r \in Rows :
        /\ ~shifted_qtr_data[<<r, sid>>].null
        /\ \/ \A q \in 0..(r - 1) : shifted_qtr_data[<<q, sid>>].null
           \/ \E q \in 0..(r - 1) :
                 /\ ~shifted_qtr_data[<<q, sid>>].null
                 /\ \A m \in (q + 1)..(r - 1) :
                       shifted_qtr_data[<<m, sid>>].null
                 /\ shifted_qtr_data[<<q, sid>>].normalized_quarters
                       # shifted_qtr_data[<<r, sid>>].normalized_quarters}

\* C12 as stated: every entry of the patch mapping comes from a row r >= 1
\* of a processed asset whose zero quarter and that of row r - 1 are both
\* non-null and differ.
CrossoversOnlyBetweenNonNullRows ==
    pc = "sids" =>
        \A k \in DOMAIN adjustments :
            \E sid \in ProcessedSids, r \in 1..(L - 1) :
                /\ ZeroQuarterChanges(r, sid)
                /\ NextQtrStartIdx(r, sid) = k

\* C12 amended: the entries of the patch mapping are exactly those of the
\* first row at which a processed asset has a zero quarter and of the rows
\* whose zero quarter differs from the nearest earlier non-null one; a row
\* with a null zero quarter gives none.
CrossoversAtFirstOrChangedRows ==
    pc = "sids" =>
        DOMAIN adjustments =
            {NextQtrStartIdx(r, sid) :
                <<r, sid>> \in {c \in Rows \X ProcessedSids :
                                   c[1] \in FirstOrChangedRows(c[2])}}

PatchFromFirstZeroQuarterRow ==
    /\ pc = "sids"
    /\ sid_idx = 1
    /\ \E r \in Rows : ~shifted_qtr_data[<<r, assets[1]>>].null
    /\ \E r \in Rows : shifted_qtr_data[<<r, assets[1]>>].null
    /\ \A r \in 1..(L - 1) : ~ZeroQuarterChanges(r, assets[1])
    /\ \E k \in DOMAIN adjustments : ~adjustments[k].none

====
